---- MODULE Spec2Model ----
(***************************************************************************)
(* A model of two streaming indicators of ta-rs:                           *)
(*   src/src/indicators/volume_weighted_average_price.rs  (VWAP)           *)
(*   src/src/indicators/trend_magic.rs                    (Trend Magic)    *)
(*                                                                         *)
(* Numbers.  The program computes in f64.  A value is modelled as a record *)
(* [k, v]: k = "num" with v an integer on a unit grid, or one of the IEEE  *)
(* specials "nan", "pinf", "ninf".  Addition, subtraction and              *)
(* multiplication of grid values are exact (as they are in f64 for         *)
(* integers of moderate size); division and square root round to the       *)
(* nearest grid value, ties to even, so cancellation in E[X^2] - E[X]^2    *)
(* can produce a negative operand exactly as rounding does in f64.         *)
(* Signed zero is not distinguished.                                       *)
(***************************************************************************)
EXTENDS Integers, Sequences, FiniteSets, TLC

VARIABLES
    vw,      \* Option<VolumeWeightedAveragePrice>: <<>> or <<instance>>
    vop,     \* the last VWAP call: [op, ...arguments..., out]
    fed,     \* history: <<typical price, volume>> of every bar consumed since new/reset
    tm,      \* Option<TrendMagic>: <<>> or <<instance>>
    top      \* the last Trend Magic call: [op, ...]

vwvars == <<vw, vop, fed>>
tmvars == <<tm, top>>
vars == <<vw, vop, fed, tm, top>>

----------------------------------------------------------------------------
(* Bounds of the model                                                     *)

MaxPrice == 2
MaxVolume == 2
MaxBars == 2
MaxPeriod == 2
MaxOffset == 1
MaxMultiplier == 1

----------------------------------------------------------------------------
(* The shapes of the values below.  Every record of the model lists its    *)
(* fields in the order in which this section introduces them.              *)

\* the record of a call when none has been made yet
NoCall == [op |-> "none"]

\* f64
F64 == [k : {"num", "nan", "pinf", "ninf"}, v : Int]

\* Result<T>
Ok(x) == [tag |-> "Ok", val |-> x]
Err(e) == [tag |-> "Err", err |-> e]

\* what a call that may panic produces: a returned value, or a panic that unwinds
Returned(x) == [tag |-> "Returned", val |-> x]
Panicked(m) == [tag |-> "Panic", msg |-> m]

Prices == 1..MaxPrice
Volumes == 0..MaxVolume

\* DataItem: a bar with low <= close <= high and volume >= 0
Bars == { b \in [high : Prices, low : Prices, close : Prices, volume : Volumes] :
            b.low <= b.close /\ b.close <= b.high }

\* a bar as Trend Magic reads it: High + Low + Close
Candles == { b \in [high : Prices, low : Prices, close : Prices] :
               b.low <= b.close /\ b.close <= b.high }

\* one entry of the history of consumed bars: its volume and its typical price
HistoryEntry(volume, tp) == [volume |-> volume, tp |-> tp]

\* struct VolumeWeightedAveragePrice
VolumeWeightedAveragePrice ==
    [cumulative_total : F64,
     cumulative_volume : F64,
     cumulative_v2 : F64,
     vwap : F64,
     std_dev : F64,
     period : Nat \ {0},
     source : {"HLC3"}]

\* the leaf indicators' state
TrueRange == [prev_close : Seq(Int)]
SimpleMovingAverage == [period : Nat \ {0}, window : Seq(Int)]
CommodityChannelIndex == [period : Nat \ {0}, window : Seq(Int)]

\* struct TrendMagic
TrendMagic ==
    [atr_multiplier : F64,
     previous_trend_magic : F64,
     previous_low : F64,
     previous_high : F64,
     previous_close : F64,
     tr : TrueRange,
     tr_sma : SimpleMovingAverage,
     cci : CommodityChannelIndex]

\* the local variables of TrendMagic's next
TmLocals == [cci : F64, atr : F64, up : F64, down : F64, current_trend_magic : F64]

\* a method call: the instance after it and the value it returns
Call(self, out) == [self |-> self, out |-> out]
CallWithLocals(self, out, locals) == [self |-> self, out |-> out, locals |-> locals]

\* the record of the last VWAP call
VNewCall(period, result) == [op |-> "new", period |-> period, result |-> result]
VNextCall(out, after) == [op |-> "next", out |-> out, after |-> after]
VResetCall(dropped) == [op |-> "reset", dropped |-> dropped]
VBandCall(out, offset, direction) ==
    [op |-> "std_dev", out |-> out, offset |-> offset, direction |-> direction]

\* the record of the last Trend Magic call
TNewCall(result, atr_periods, cci_periods) ==
    [op |-> "new", result |-> result, atr_periods |-> atr_periods, cci_periods |-> cci_periods]
TNextCall(out, locals, after, input, before) ==
    [op |-> "next", out |-> out, locals |-> locals, after |-> after,
     input |-> input, before |-> before]
TResetCall(before) == [op |-> "reset", before |-> before]
TBrief(current_trend_magic, bullish) ==
    [op |-> "next", current_trend_magic |-> current_trend_magic, bullish |-> bullish]

----------------------------------------------------------------------------
(* f64                                                                     *)

Num(n) == [k |-> "num", v |-> n]
NaN == [k |-> "nan", v |-> 0]
PInf == [k |-> "pinf", v |-> 0]
NInf == [k |-> "ninf", v |-> 0]
Zero == Num(0)

IsNum(a) == a.k = "num"
IsNaN(a) == a.k = "nan"

\* the sign of a non-NaN value: -1, 0, 1
Sgn(a) == CASE a.k = "pinf" -> 1
            [] a.k = "ninf" -> 0 - 1
            [] OTHER -> IF a.v > 0 THEN 1 ELSE IF a.v < 0 THEN 0 - 1 ELSE 0

InfOf(s) == IF s > 0 THEN PInf ELSE NInf

FNeg(a) == CASE a.k = "num" -> Num(0 - a.v)
             [] a.k = "pinf" -> NInf
             [] a.k = "ninf" -> PInf
             [] OTHER -> NaN

FAdd(a, b) == CASE IsNaN(a) \/ IsNaN(b) -> NaN
                [] IsNum(a) /\ IsNum(b) -> Num(a.v + b.v)
                [] IsNum(a) -> b
                [] IsNum(b) -> a
                [] OTHER -> IF a.k = b.k THEN a ELSE NaN

FSub(a, b) == FAdd(a, FNeg(b))

FMul(a, b) == CASE IsNaN(a) \/ IsNaN(b) -> NaN
                [] IsNum(a) /\ IsNum(b) -> Num(a.v * b.v)
                [] OTHER -> IF Sgn(a) * Sgn(b) = 0 THEN NaN ELSE InfOf(Sgn(a) * Sgn(b))

Abs(n) == IF n < 0 THEN 0 - n ELSE n

\* n / d for d > 0 and n >= 0, rounded to the nearest integer, ties to even
RoundDivPos(n, d) ==
    LET q == n \div d
        r == n - q * d
    IN  IF 2 * r < d THEN q
        ELSE IF 2 * r > d THEN q + 1
        ELSE IF q % 2 = 0 THEN q ELSE q + 1

\* n / d for d # 0, rounded to the nearest integer, ties to even
RoundDiv(n, d) ==
    IF (n < 0) = (d < 0)
    THEN RoundDivPos(Abs(n), Abs(d))
    ELSE 0 - RoundDivPos(Abs(n), Abs(d))

FDiv(a, b) == CASE IsNaN(a) \/ IsNaN(b) -> NaN
                [] IsNum(a) /\ IsNum(b) ->
                     IF b.v = 0
                     THEN (IF a.v = 0 THEN NaN ELSE InfOf(Sgn(a)))
                     ELSE Num(RoundDiv(a.v, b.v))
                [] IsNum(a) -> Zero
                [] IsNum(b) -> InfOf(Sgn(a) * (IF b.v < 0 THEN 0 - 1 ELSE 1))
                [] OTHER -> NaN

\* a < b, a <= b, a >= b on f64: every comparison with NaN is false
FLt(a, b) == CASE IsNaN(a) \/ IsNaN(b) -> FALSE
               [] IsNum(a) /\ IsNum(b) -> a.v < b.v
               [] OTHER -> (a.k = "ninf" /\ b.k # "ninf") \/ (b.k = "pinf" /\ a.k # "pinf")

FLe(a, b) == CASE IsNaN(a) \/ IsNaN(b) -> FALSE
               [] OTHER -> a = b \/ FLt(a, b)

FGt(a, b) == FLt(b, a)

FGe(a, b) == FLe(b, a)

\* f64::max: if one argument is NaN the other is returned
FMax(a, b) == CASE IsNaN(a) -> b
                [] IsNaN(b) -> a
                [] OTHER -> IF FLt(a, b) THEN b ELSE a

\* the largest r >= 0 with r * r <= n, for n >= 0
RECURSIVE ISqrtFrom(_, _)
ISqrtFrom(n, r) == IF (r + 1) * (r + 1) > n THEN r ELSE ISqrtFrom(n, r + 1)

\* sqrt(n) for n >= 0 rounded to the nearest integer
RoundSqrt(n) ==
    LET r == ISqrtFrom(n, 0)
    IN  IF n - r * r > r THEN r + 1 ELSE r

\* f64::sqrt: NaN for a negative operand
FSqrt(a) == CASE a.k = "nan" -> NaN
              [] a.k = "ninf" -> NaN
              [] a.k = "pinf" -> PInf
              [] OTHER -> IF a.v < 0 THEN NaN ELSE Num(RoundSqrt(a.v))

----------------------------------------------------------------------------
(* DataItem                                                                *)

\* DataItem accessors, as f64
High(d) == Num(d.high)
Low(d) == Num(d.low)
Close(d) == Num(d.close)
Volume(d) == Num(d.volume)

----------------------------------------------------------------------------
(* VolumeWeightedAveragePrice                                              *)

\* a constructor that clamps a zero period to 1 instead of rejecting it
VwapNewClamping(period) ==
    Ok([cumulative_total |-> Zero,
        cumulative_volume |-> Zero,
        cumulative_v2 |-> Zero,
        vwap |-> Zero,
        std_dev |-> Zero,
        period |-> IF period = 0 THEN 1 ELSE period,
        source |-> "HLC3"])

\* VolumeWeightedAveragePrice::new
VwapNew(period) ==
    IF period = 0
    THEN Err("InvalidParameter")
    ELSE Ok([cumulative_total |-> Zero,
             cumulative_volume |-> Zero,
             cumulative_v2 |-> Zero,
             vwap |-> Zero,
             std_dev |-> Zero,
             period |-> period,
             source |-> "HLC3"])

\* a band query whose Down arm adds instead of subtracting
BandValueBothUp(self, offset, band_direction) ==
    FAdd(self.vwap, FMul(offset, self.std_dev))

\* VolumeWeightedAveragePrice::std_dev(&self, offset, band_direction): the value returned
BandValue(self, offset, band_direction) ==
    IF band_direction = "Up"
    THEN FAdd(self.vwap, FMul(offset, self.std_dev))
    ELSE FSub(self.vwap, FMul(offset, self.std_dev))

\* a band query that caches the band it returns in self.vwap
VwapStdDevCaching(self, offset, band_direction) ==
    Call([self EXCEPT !.vwap = BandValue(self, offset, band_direction)],
         BandValue(self, offset, band_direction))

\* VolumeWeightedAveragePrice::std_dev: the instance after the call and the value returned
VwapStdDev(self, offset, band_direction) ==
    Call(self, BandValue(self, offset, band_direction))

\* VolumeWeightedAveragePrice::typical_price
TypicalPrice(self, d) ==
    FDiv(FAdd(FAdd(High(d), Low(d)), Close(d)), Num(3))

\* the square root taken without the clamp
UnclampedSqrt(val) == FSqrt(val)

\* self.std_dev = val.max(0.0).sqrt()
ClampedSqrt(val) == FSqrt(FMax(val, Zero))

\* running sums that are overwritten by the current bar instead of added to
AccumulateLastOnly(self, typical_price, volume) ==
    [self EXCEPT
        !.cumulative_volume = volume,
        !.cumulative_total = FMul(typical_price, volume)]

\* a price sum that forgets to weight the typical price by the volume
AccumulateUnweighted(self, typical_price, volume) ==
    [self EXCEPT
        !.cumulative_volume = FAdd(volume, self.cumulative_volume),
        !.cumulative_total = FAdd(typical_price, self.cumulative_total)]

\* the two running sums of next that feed the quotient
Accumulate(self, typical_price, volume) ==
    [self EXCEPT
        !.cumulative_volume = FAdd(volume, self.cumulative_volume),
        !.cumulative_total = FAdd(FMul(typical_price, volume), self.cumulative_total)]

\* a next that subtracts the mean where its square is meant
VwapNextUnsquaredMean(self, d) ==
    LET typical_price == TypicalPrice(self, d)
        s1 == Accumulate(self, typical_price, Volume(d))
        s2 == [s1 EXCEPT !.vwap = FDiv(s1.cumulative_total, s1.cumulative_volume)]
        s3 == [s2 EXCEPT !.cumulative_v2 =
                  FAdd(FMul(FMul(Volume(d), typical_price), typical_price), s2.cumulative_v2)]
        val == FSub(FDiv(s3.cumulative_v2, s3.cumulative_volume), s3.vwap)
        s4 == [s3 EXCEPT !.std_dev = ClampedSqrt(val)]
    IN  Call(s4, s4.vwap)

\* Next<DataItem>::next: the instance after the call and the value returned
VwapNext(self, d) ==
    LET typical_price == TypicalPrice(self, d)
        s1 == Accumulate(self, typical_price, Volume(d))
        s2 == [s1 EXCEPT !.vwap = FDiv(s1.cumulative_total, s1.cumulative_volume)]
        s3 == [s2 EXCEPT !.cumulative_v2 =
                  FAdd(FMul(FMul(Volume(d), typical_price), typical_price), s2.cumulative_v2)]
        val == FSub(FDiv(s3.cumulative_v2, s3.cumulative_volume), FMul(s3.vwap, s3.vwap))
        s4 == [s3 EXCEPT !.std_dev = ClampedSqrt(val)]
    IN  Call(s4, s4.vwap)

\* a reset that keeps the volume accumulated so far
VwapResetKeepsVolume(self) ==
    [self EXCEPT
        !.cumulative_total = Zero,
        !.cumulative_v2 = Zero,
        !.vwap = Zero,
        !.std_dev = Zero]

\* a reset that forgets cumulative_v2
VwapResetPartial(self) ==
    [self EXCEPT
        !.cumulative_total = Zero,
        !.cumulative_volume = Zero,
        !.vwap = Zero,
        !.std_dev = Zero]

\* Reset::reset
VwapReset(self) ==
    [self EXCEPT
        !.cumulative_total = Zero,
        !.cumulative_volume = Zero,
        !.cumulative_v2 = Zero,
        !.vwap = Zero,
        !.std_dev = Zero]

Periods == 0..MaxPeriod
Offsets == { Num(k) : k \in 1..MaxOffset }
Directions == {"Up", "Down"}

\* what a consume remembers of the call before it: its name, and for a reset
\* the number of bars it discarded
Brief(call) == IF call.op = "reset" THEN call ELSE [op |-> call.op]

\* a caller that holds no instance constructs one; on Err it obtains none
VNew(period) ==
    \E r \in {VwapNew(period)} :
        /\ vw = <<>>
        /\ vop' = VNewCall(period, r)
        /\ IF r.tag = "Ok"
           THEN vw' = <<r.val>> /\ fed' = <<>>
           ELSE UNCHANGED <<vw, fed>>
        /\ UNCHANGED tmvars

\* the caller feeds the next bar
VConsume(d) ==
    /\ vw # <<>>
    /\ Len(fed) < MaxBars
    /\ \E r \in {VwapNext(vw[1], d)} :
           /\ vw' = <<r.self>>
           /\ vop' = VNextCall(r.out, Brief(vop))
           /\ fed' = Append(fed, HistoryEntry(Volume(d), TypicalPrice(vw[1], d)))
    /\ UNCHANGED tmvars

\* the caller resets the instance
VReset ==
    /\ vw # <<>>
    /\ vw' = <<VwapReset(vw[1])>>
    /\ vop' = VResetCall(Len(fed))
    /\ fed' = <<>>
    /\ UNCHANGED tmvars

\* the caller queries a band
VBand(offset, band_direction) ==
    /\ vw # <<>>
    /\ \E r \in {VwapStdDev(vw[1], offset, band_direction)} :
           /\ vw' = <<r.self>>
           /\ vop' = VBandCall(r.out, offset, band_direction)
    /\ UNCHANGED fed
    /\ UNCHANGED tmvars

Init ==
    /\ vw = <<>>
    /\ vop = NoCall
    /\ fed = <<>>
    /\ tm = <<>>
    /\ top = NoCall

NextVwap ==
    \/ \E period \in Periods : VNew(period)
    \/ \E d \in Bars : VConsume(d)
    \/ VReset
    \/ \E offset \in Offsets, band_direction \in Directions : VBand(offset, band_direction)

SpecVwap == Init /\ [][NextVwap]_vars

----------------------------------------------------------------------------
(* The leaf indicators Trend Magic owns: True Range, Simple Moving Average *)
(* and Commodity Channel Index.  Their code is not among the source files; *)
(* they are modelled from the specification's description of them.         *)

\* sum of a sequence of integers
RECURSIVE SumInts(_)
SumInts(s) == IF s = <<>> THEN 0 ELSE s[Len(s)] + SumInts(SubSeq(s, 1, Len(s) - 1))

\* the last n elements of s
LastN(s, n) == IF Len(s) <= n THEN s ELSE SubSeq(s, Len(s) - n + 1, Len(s))

MaxInt(a, b) == IF a >= b THEN a ELSE b

\* True Range: state after construction or reset (no previous close)
TrueRangeNew == [prev_close |-> <<>>]

\* True Range: max of (high - low), |high - previous close|, |low - previous close|
TrueRangeNext(self, d) ==
    LET dist == IF self.prev_close = <<>>
                THEN d.high - d.low
                ELSE MaxInt(d.high - d.low,
                            MaxInt(Abs(d.high - self.prev_close[1]),
                                   Abs(d.low - self.prev_close[1])))
    IN  Call([prev_close |-> <<d.close>>], Num(dist))

TrueRangeReset(self) == TrueRangeNew

\* Simple Moving Average: a zero-length window is InvalidParameter
SmaNew(period) ==
    IF period = 0 THEN Err("InvalidParameter")
    ELSE Ok([period |-> period, window |-> <<>>])

\* Simple Moving Average: the mean of the last `period` inputs
SmaNext(self, x) ==
    LET w == LastN(Append(self.window, x.v), self.period)
    IN  Call([self EXCEPT !.window = w], FDiv(Num(SumInts(w)), Num(Len(w))))

SmaReset(self) == [self EXCEPT !.window = <<>>]

\* Commodity Channel Index: a zero-length window is InvalidParameter
CciNew(period) ==
    IF period = 0 THEN Err("InvalidParameter")
    ELSE Ok([period |-> period, window |-> <<>>])

\* sum over the window of |n * x - total|: n * n * 3 times the mean absolute deviation
RECURSIVE SumAbsDev(_, _, _)
SumAbsDev(s, n, total) ==
    IF s = <<>> THEN 0
    ELSE Abs(n * s[Len(s)] - total) + SumAbsDev(SubSeq(s, 1, Len(s) - 1), n, total)

\* Commodity Channel Index: (typical price - its moving average) / (0.015 * mean
\* absolute deviation), 0 when the deviation is 0.  The window keeps high + low +
\* close (three times the typical price); the quotient is rounded once.
CciNext(self, d) ==
    LET w == LastN(Append(self.window, d.high + d.low + d.close), self.period)
        n == Len(w)
        total == SumInts(w)
        dev == n * w[n] - total
        absdev == SumAbsDev(w, n, total)
    IN  Call([self EXCEPT !.window = w],
             IF absdev = 0 THEN Zero
             ELSE Num(RoundDiv(dev * n * 1000, 15 * absdev)))

CciReset(self) == [self EXCEPT !.window = <<>>]

----------------------------------------------------------------------------
(* TrendMagic                                                              *)

\* TrendMagic::new: returns Self; the two sub-indicator Results are unwrapped
TmNew(atr_periods, atr_multiplier, cci_periods) ==
    LET tr_sma == SmaNew(atr_periods)
        cci == CciNew(cci_periods)
    IN  IF tr_sma.tag = "Err"
        THEN Panicked(<<"unwrap on Err", tr_sma.err>>)
        ELSE IF cci.tag = "Err"
        THEN Panicked(<<"unwrap on Err", cci.err>>)
        ELSE Returned([atr_multiplier |-> atr_multiplier,
                       previous_trend_magic |-> Zero,
                       previous_low |-> Zero,
                       previous_high |-> Zero,
                       previous_close |-> Zero,
                       tr |-> TrueRangeNew,
                       tr_sma |-> tr_sma.val,
                       cci |-> cci.val])

\* fn crossover
crossover(previous_x, previous_y, current_x, current_y) ==
    LET condition1 == FLe(previous_x, previous_y)
        condition2 == FGe(current_x, current_y)
    IN  condition1 /\ condition2

\* fn crossunder
crossunder(previous_x, previous_y, current_x, current_y) ==
    LET condition1 == FGe(previous_x, previous_y)
        condition2 == FLe(current_x, current_y)
    IN  condition1 /\ condition2

\* fn cross: both results come from crossover
cross(previous_x, previous_y, current_x, current_y) ==
    LET crossover_result == crossover(previous_x, previous_y, current_x, current_y)
        crossunder_result == crossover(previous_x, previous_y, current_x, current_y)
    IN  crossover_result \/ crossunder_result

\* a selection that never holds the previous value
SelectTrendNoHold(cci, up, down, previous_trend_magic) ==
    IF FGe(cci, Zero) THEN up ELSE down

\* a selection that takes cci = 0 for bearish
SelectTrendStrictRegime(cci, up, down, previous_trend_magic) ==
    IF FGt(cci, Zero)
    THEN (IF FLt(up, previous_trend_magic) THEN previous_trend_magic ELSE up)
    ELSE (IF FGt(down, previous_trend_magic) THEN previous_trend_magic ELSE down)

\* the if/else that selects current_trend_magic
SelectTrend(cci, up, down, previous_trend_magic) ==
    IF FGe(cci, Zero)
    THEN (IF FLt(up, previous_trend_magic) THEN previous_trend_magic ELSE up)
    ELSE (IF FGt(down, previous_trend_magic) THEN previous_trend_magic ELSE down)

\* a next that overwrites previous_close, previous_high and previous_low before
\* the cross tests read them
TmNextUpdatesFirst(self, input) ==
    LET tr == TrueRangeNext(self.tr, input)
        tr_sma == SmaNext(self.tr_sma, tr.out)
        atr == tr_sma.out
        cci == CciNext(self.cci, input)
        up == FSub(Low(input), FMul(atr, self.atr_multiplier))
        down == FAdd(High(input), FMul(atr, self.atr_multiplier))
        current_trend_magic == SelectTrend(cci.out, up, down, self.previous_trend_magic)
        cross1 == cross(Close(input), current_trend_magic,
                        Close(input), self.previous_trend_magic)
        cross2 == crossover(Low(input), current_trend_magic,
                            Low(input), self.previous_trend_magic)
        cross3 == crossunder(High(input), current_trend_magic,
                             High(input), self.previous_trend_magic)
    IN  CallWithLocals(
            [self EXCEPT
                !.tr = tr.self,
                !.tr_sma = tr_sma.self,
                !.cci = cci.self,
                !.previous_trend_magic = current_trend_magic,
                !.previous_close = Close(input),
                !.previous_high = High(input),
                !.previous_low = Low(input)],
            <<cross1, cross2, cross3>>,
            [cci |-> cci.out, atr |-> atr, up |-> up, down |-> down,
             current_trend_magic |-> current_trend_magic])

\* a next that reports no signal on the first bar after construction or reset
TmNextQuietFirstBar(self, input) ==
    LET tr == TrueRangeNext(self.tr, input)
        tr_sma == SmaNext(self.tr_sma, tr.out)
        atr == tr_sma.out
        cci == CciNext(self.cci, input)
        up == FSub(Low(input), FMul(atr, self.atr_multiplier))
        down == FAdd(High(input), FMul(atr, self.atr_multiplier))
        current_trend_magic == SelectTrend(cci.out, up, down, self.previous_trend_magic)
        cross1 == cross(Close(input), current_trend_magic,
                        self.previous_close, self.previous_trend_magic)
        cross2 == crossover(Low(input), current_trend_magic,
                            self.previous_low, self.previous_trend_magic)
        cross3 == crossunder(High(input), current_trend_magic,
                             self.previous_high, self.previous_trend_magic)
    IN  CallWithLocals(
            [self EXCEPT
                !.tr = tr.self,
                !.tr_sma = tr_sma.self,
                !.cci = cci.self,
                !.previous_trend_magic = current_trend_magic,
                !.previous_close = Close(input),
                !.previous_high = High(input),
                !.previous_low = Low(input)],
            IF self.tr.prev_close = <<>> THEN <<FALSE, FALSE, FALSE>>
            ELSE <<cross1, cross2, cross3>>,
            [cci |-> cci.out, atr |-> atr, up |-> up, down |-> down,
             current_trend_magic |-> current_trend_magic])

\* Next<&T>::next: the instance after the call, the triple returned, and the
\* values of its local variables
TmNext(self, input) ==
    LET tr == TrueRangeNext(self.tr, input)
        tr_sma == SmaNext(self.tr_sma, tr.out)
        atr == tr_sma.out
        cci == CciNext(self.cci, input)
        up == FSub(Low(input), FMul(atr, self.atr_multiplier))
        down == FAdd(High(input), FMul(atr, self.atr_multiplier))
        current_trend_magic == SelectTrend(cci.out, up, down, self.previous_trend_magic)
        cross1 == cross(Close(input), current_trend_magic,
                        self.previous_close, self.previous_trend_magic)
        cross2 == crossover(Low(input), current_trend_magic,
                            self.previous_low, self.previous_trend_magic)
        cross3 == crossunder(High(input), current_trend_magic,
                             self.previous_high, self.previous_trend_magic)
    IN  CallWithLocals(
            [self EXCEPT
                !.tr = tr.self,
                !.tr_sma = tr_sma.self,
                !.cci = cci.self,
                !.previous_trend_magic = current_trend_magic,
                !.previous_close = Close(input),
                !.previous_high = High(input),
                !.previous_low = Low(input)],
            <<cross1, cross2, cross3>>,
            [cci |-> cci.out, atr |-> atr, up |-> up, down |-> down,
             current_trend_magic |-> current_trend_magic])

\* a reset that leaves the trend line where it was
TmResetKeepsTrend(self) ==
    [self EXCEPT
        !.previous_close = Zero,
        !.previous_high = Zero,
        !.previous_low = Zero,
        !.tr = TrueRangeReset(self.tr),
        !.tr_sma = SmaReset(self.tr_sma),
        !.cci = CciReset(self.cci)]

\* Reset::reset
TmReset(self) ==
    [self EXCEPT
        !.previous_close = Zero,
        !.previous_high = Zero,
        !.previous_low = Zero,
        !.previous_trend_magic = Zero,
        !.tr = TrueRangeReset(self.tr),
        !.tr_sma = SmaReset(self.tr_sma),
        !.cci = CciReset(self.cci)]

Multipliers == { Num(m) : m \in 0..MaxMultiplier }

\* the stored previous_* fields of an instance
Previous(self) ==
    [previous_trend_magic |-> self.previous_trend_magic,
     previous_low |-> self.previous_low,
     previous_high |-> self.previous_high,
     previous_close |-> self.previous_close]

\* what a consume remembers of the call before it: its name, for a consume
\* whether it saw cci >= 0 and the trend-line value it computed, and for a reset
\* the previous_* values it discarded
BriefTm(call) ==
    IF call.op = "next"
    THEN TBrief(call.locals.current_trend_magic, FGe(call.locals.cci, Zero))
    ELSE IF call.op = "reset" THEN call ELSE [op |-> call.op]

\* a caller that holds no instance constructs one; a panic leaves it with none
TNew(atr_periods, atr_multiplier, cci_periods) ==
    \E r \in {TmNew(atr_periods, atr_multiplier, cci_periods)} :
        /\ tm = <<>>
        /\ top' = TNewCall(r.tag, atr_periods, cci_periods)
        /\ tm' = IF r.tag = "Returned" THEN <<r.val>> ELSE <<>>
        /\ UNCHANGED vwvars

\* the caller feeds the next bar
TConsume(input) ==
    /\ tm # <<>>
    /\ \E r \in {TmNext(tm[1], input)} :
           /\ tm' = <<r.self>>
           /\ top' = TNextCall(r.out, r.locals, BriefTm(top), input, Previous(tm[1]))
    /\ UNCHANGED vwvars

\* the caller resets the instance
TReset ==
    /\ tm # <<>>
    /\ tm' = <<TmReset(tm[1])>>
    /\ top' = TResetCall(Previous(tm[1]))
    /\ UNCHANGED vwvars

NextTm ==
    \/ \E atr_periods \in Periods, atr_multiplier \in Multipliers, cci_periods \in Periods :
          TNew(atr_periods, atr_multiplier, cci_periods)
    \/ \E input \in Candles : TConsume(input)
    \/ TReset

SpecTm == Init /\ [][NextTm]_vars

----------------------------------------------------------------------------
(* The instances held have the shapes of their structs.                    *)

TypeOK ==
    /\ vw \in Seq(VolumeWeightedAveragePrice) /\ Len(vw) <= 1
    /\ tm \in Seq(TrendMagic) /\ Len(tm) <= 1
    /\ top.op = "next" => top.locals \in TmLocals

----------------------------------------------------------------------------
(* Claims about VolumeWeightedAveragePrice.  Two results are "the same"    *)
(* when they are the same f64 value; NaN is the same value as NaN.         *)

\* the instance new(period) yields, period >= 1
Fresh(period) == VwapNew(period).val

\* sum of typical_price * volume and sum of volume over a history
RECURSIVE SumPriceVolume(_)
SumPriceVolume(h) ==
    IF h = <<>> THEN Zero
    ELSE FAdd(FMul(h[Len(h)].tp, h[Len(h)].volume), SumPriceVolume(SubSeq(h, 1, Len(h) - 1)))

RECURSIVE SumVolume(_)
SumVolume(h) ==
    IF h = <<>> THEN Zero
    ELSE FAdd(h[Len(h)].volume, SumVolume(SubSeq(h, 1, Len(h) - 1)))

AllPositiveVolume(h) == \A i \in 1..Len(h) : FGt(h[i].volume, Zero)

MinTypical(h) == CHOOSE x \in { h[i].tp : i \in 1..Len(h) } :
                    \A i \in 1..Len(h) : FLe(x, h[i].tp)

MaxTypical(h) == CHOOSE x \in { h[i].tp : i \in 1..Len(h) } :
                    \A i \in 1..Len(h) : FGe(x, h[i].tp)

\* the operand of the square root, recomputed from the stored sums
RawVariance(self) ==
    FSub(FDiv(self.cumulative_v2, self.cumulative_volume), FMul(self.vwap, self.vwap))

\* C1: reset() followed by consume(b1) returns what consume(b1) returns on a
\* freshly constructed instance of the same period, and leaves the instance in
\* the same state (all accumulators), so every later consume agrees too.
C1_ResetThenConsumeAsFresh ==
    [][(vop.op = "reset" /\ vop'.op = "next") =>
         \A d \in Bars :
            VConsume(d) =>
               LET f == VwapNext(Fresh(vw[1].period), d)
               IN  vop'.out = f.out /\ vw' = <<f.self>>]_vars

\* a first consume after a reset that discarded consumed bars
C1_Witness ==
    /\ vop.op = "next"
    /\ vop.after.op = "reset"
    /\ vop.after.dropped > 0
    /\ FGt(vw[1].cumulative_volume, Zero)

\* C2: after the n-th consume since construction or reset the vwap returned is
\* (sum of typical_price * volume) / (sum of volume) over all n bars, also for
\* n greater than the period; the quotient does not depend on the period.
C2_CumulativeNotWindowed ==
    vw # <<>> =>
        /\ (fed # <<>> => vw[1].vwap = FDiv(SumPriceVolume(fed), SumVolume(fed)))
        /\ (vop.op = "next" => vop.out = FDiv(SumPriceVolume(fed), SumVolume(fed)))

\* more bars than the period, and the first bar still weighs in the result
C2_Witness ==
    /\ vw # <<>>
    /\ vop.op = "next"
    /\ Len(fed) > vw[1].period
    /\ AllPositiveVolume(fed)
    /\ fed[1].tp # fed[Len(fed)].tp
    /\ vop.out # fed[Len(fed)].tp

\* C3: the stored std_dev is >= 0 in every reachable state.
C3_StdDevNonNegative ==
    vw # <<>> => FGe(vw[1].std_dev, Zero)

\* rounding made the operand of the square root negative and the clamp took it to 0
C3_Witness ==
    /\ vw # <<>>
    /\ vop.op = "next"
    /\ FLt(RawVariance(vw[1]), Zero)
    /\ vw[1].std_dev = Zero

C5_BandSymmetry ==
    vw # <<>> =>
        \A k \in Offsets :
            FSub(VwapStdDev(vw[1], k, "Up").out, vw[1].vwap)
              = FSub(vw[1].vwap, VwapStdDev(vw[1], k, "Down").out)

\* a band strictly above the vwap has been returned
C5_Witness ==
    /\ vw # <<>>
    /\ vop.op = "std_dev"
    /\ vop.direction = "Up"
    /\ FGt(vop.out, vw[1].vwap)

\* C6: a band query leaves every field of the instance unchanged, answers from
\* the vwap and std_dev of the most recent consume (zero after construction or
\* reset); with the instance unchanged, so is what any later consume returns.
C6_BandIsPureRead ==
    [][vop'.op = "std_dev" =>
         /\ vw' = vw
         /\ fed' = fed
         /\ vop'.out = (IF vop'.direction = "Up"
                        THEN FAdd(vw[1].vwap, FMul(vop'.offset, vw[1].std_dev))
                        ELSE FSub(vw[1].vwap, FMul(vop'.offset, vw[1].std_dev)))
         /\ (fed = <<>> => vop'.out = Zero)
         /\ (fed # <<>> => vw'[1].vwap = FDiv(SumPriceVolume(fed), SumVolume(fed)))]_vars

\* a band below the vwap has been returned between consumes
C6_Witness ==
    /\ vw # <<>>
    /\ vop.op = "std_dev"
    /\ vop.direction = "Down"
    /\ fed # <<>>
    /\ FLt(vop.out, vw[1].vwap)

\* C7: new(0) returns Err(InvalidParameter) and yields no instance; new(p),
\* p >= 1, yields an instance of period p whose five accumulators are 0.
C7_ConstructionValidation ==
    [][vop'.op = "new" =>
         IF vop'.period = 0
         THEN /\ vop'.result = Err("InvalidParameter")
              /\ vw' = vw
         ELSE /\ vop'.result.tag = "Ok"
              /\ vw' = <<vop'.result.val>>
              /\ vw'[1].period = vop'.period
              /\ vw'[1].cumulative_total = Zero
              /\ vw'[1].cumulative_volume = Zero
              /\ vw'[1].cumulative_v2 = Zero
              /\ vw'[1].vwap = Zero
              /\ vw'[1].std_dev = Zero]_vars

\* new(0) has been refused and the caller holds no instance
C7_Witness ==
    /\ vop.op = "new"
    /\ vop.period = 0
    /\ vop.result.tag = "Err"
    /\ vw = <<>>

----------------------------------------------------------------------------
(* Claims about TrendMagic                                                 *)

Bullish(c) == FGe(c, Zero)
Bearish(c) == FLt(c, Zero)

\* C8: constructing a TrendMagic with atr_periods = 0 or cci_periods = 0 hands the
\* caller an Err(InvalidParameter) result; it neither yields an instance nor
\* panics.
C8_ZeroPeriodReturnsErr ==
    (top.op = "new" /\ (top.atr_periods = 0 \/ top.cci_periods = 0)) =>
        top.result = "Err"

\* C9: of two consecutive consumes that both see cci >= 0 the later computes a
\* trend-line value >= the earlier one's; with cci < 0 on both, <= it.
C9_TrendRatchet ==
    (top.op = "next" /\ top.after.op = "next") =>
        /\ (top.after.bullish /\ Bullish(top.locals.cci)) =>
              FGe(top.locals.current_trend_magic, top.after.current_trend_magic)
        /\ (~top.after.bullish /\ Bearish(top.locals.cci)) =>
              FLe(top.locals.current_trend_magic, top.after.current_trend_magic)

\* two consecutive bullish consumes, the second of which raised the trend line
C9_Witness ==
    /\ top.op = "next"
    /\ top.after.op = "next"
    /\ top.after.bullish
    /\ Bullish(top.locals.cci)
    /\ FGt(top.locals.current_trend_magic, top.after.current_trend_magic)

\* two consecutive bearish consumes, the second of which lowered the trend line
C9_BearishRunReached ==
    /\ top.op = "next"
    /\ top.after.op = "next"
    /\ ~top.after.bullish
    /\ Bearish(top.locals.cci)
    /\ FLt(top.locals.current_trend_magic, top.after.current_trend_magic)

\* C10: the first boolean returned by consume is true iff
\* (previous_close <= previous_trend and close >= current_trend) or
\* (previous_close >= previous_trend and close <= current_trend).
C10_CrossEitherDirection ==
    top.op = "next" =>
        (top.out[1] <=>
            \/ /\ FLe(top.before.previous_close, top.before.previous_trend_magic)
               /\ FGe(Close(top.input), top.locals.current_trend_magic)
            \/ /\ FGe(top.before.previous_close, top.before.previous_trend_magic)
               /\ FLe(Close(top.input), top.locals.current_trend_magic))

\* the instance new yields with the parameters an instance was constructed with
FreshTm(self) == TmNew(self.tr_sma.period, self.atr_multiplier, self.cci.period).val

AllZero(previous) ==
    /\ previous.previous_trend_magic = Zero
    /\ previous.previous_low = Zero
    /\ previous.previous_high = Zero
    /\ previous.previous_close = Zero

\* C11: reset() sets previous_trend_magic, previous_close, previous_high and
\* previous_low to 0 and resets the three sub-indicators, leaving the instance
\* that new gives with the same atr_periods, atr_multiplier and cci_periods (a
\* fresh instance is left unchanged); the consume after a reset returns what it
\* returns on that fresh instance and leaves the same state.
C11_ResetAsFresh ==
    [][/\ top'.op = "reset" =>
            /\ tm' = <<FreshTm(tm[1])>>
            /\ AllZero(Previous(tm'[1]))
            /\ (tm[1] = FreshTm(tm[1]) => tm' = tm)
       /\ (top.op = "reset" /\ top'.op = "next") =>
            LET f == TmNext(FreshTm(tm[1]), top'.input)
            IN  top'.out = f.out /\ tm' = <<f.self>>]_vars

\* a first consume after a reset that discarded a moved trend line
C11_Witness ==
    /\ top.op = "next"
    /\ top.after.op = "reset"
    /\ top.after.before.previous_trend_magic # Zero
    /\ AllZero(top.before)

\* C14: the second boolean returned by consume is true iff
\* previous_low <= previous_trend and low >= current_trend.
C14_LowCrossesUpward ==
    top.op = "next" =>
        (top.out[2] <=>
            /\ FLe(top.before.previous_low, top.before.previous_trend_magic)
            /\ FGe(Low(top.input), top.locals.current_trend_magic))

\* C15: the third boolean returned by consume is true iff
\* previous_high >= previous_trend and high <= current_trend.
C15_HighCrossesDownward ==
    top.op = "next" =>
        (top.out[3] <=>
            /\ FGe(top.before.previous_high, top.before.previous_trend_magic)
            /\ FLe(High(top.input), top.locals.current_trend_magic))

MaxOf(a, b) == IF FGe(a, b) THEN a ELSE b
MinOf(a, b) == IF FLe(a, b) THEN a ELSE b

\* C16: with up = low - atr * multiplier and down = high + atr * multiplier, the
\* new trend-line value is max(previous_trend, up) when cci >= 0 and
\* min(previous_trend, down) when cci < 0: the previous value when
\* up < previous_trend (cci >= 0) or down > previous_trend (cci < 0), and up or
\* down otherwise.
C16_SelectionStep ==
    top.op = "next" =>
        LET prev == top.before.previous_trend_magic
            l == top.locals
        IN  /\ l.up = FSub(Low(top.input), FMul(l.atr, tm[1].atr_multiplier))
            /\ l.down = FAdd(High(top.input), FMul(l.atr, tm[1].atr_multiplier))
            /\ Bullish(l.cci) =>
                  /\ l.current_trend_magic = MaxOf(prev, l.up)
                  /\ l.current_trend_magic = (IF FLt(l.up, prev) THEN prev ELSE l.up)
            /\ Bearish(l.cci) =>
                  /\ l.current_trend_magic = MinOf(prev, l.down)
                  /\ l.current_trend_magic = (IF FGt(l.down, prev) THEN prev ELSE l.down)

\* a bullish consume that held the previous trend-line value above up
C16_Witness ==
    /\ top.op = "next"
    /\ Bullish(top.locals.cci)
    /\ FLt(top.locals.up, top.before.previous_trend_magic)
    /\ top.locals.current_trend_magic = top.before.previous_trend_magic

\* a bearish consume that took down, below the previous trend-line value
C16_BearishTakesDown ==
    /\ top.op = "next"
    /\ Bearish(top.locals.cci)
    /\ FLt(top.locals.down, top.before.previous_trend_magic)
    /\ top.locals.current_trend_magic = top.locals.down

\* C17: a consume computes the trend line and the three signals from the
\* previous_* values the prior call stored, and afterwards stores the bar's
\* close, high and low and the trend-line value it computed.
C17_UpdateAfterCompute ==
    [][top'.op = "next" =>
         LET p == Previous(tm[1])
             l == top'.locals
             cur == l.current_trend_magic
         IN  /\ cur = SelectTrend(l.cci, l.up, l.down, p.previous_trend_magic)
             /\ top'.out[1] = cross(Close(top'.input), cur,
                                    p.previous_close, p.previous_trend_magic)
             /\ top'.out[2] = crossover(Low(top'.input), cur,
                                        p.previous_low, p.previous_trend_magic)
             /\ top'.out[3] = crossunder(High(top'.input), cur,
                                         p.previous_high, p.previous_trend_magic)
             /\ tm'[1].previous_close = Close(top'.input)
             /\ tm'[1].previous_high = High(top'.input)
             /\ tm'[1].previous_low = Low(top'.input)
             /\ tm'[1].previous_trend_magic = cur]_vars

\* a second consume whose bar differs from the stored one in close, high and low
C17_Witness ==
    /\ top.op = "next"
    /\ top.after.op = "next"
    /\ top.before.previous_close # Close(top.input)
    /\ top.before.previous_high # High(top.input)
    /\ top.before.previous_low # Low(top.input)
    /\ tm[1].previous_close = Close(top.input)

\* C18: the first consume after construction or reset finds the four
\* previous_* fields 0 and uses them as such in the selection and in the cross
\* tests; its signals are not suppressed, so a first bar can return one that is
\* true.
C18_FirstBarUsesZeros ==
    (top.op = "next" /\ top.after.op \in {"new", "reset"}) =>
        LET l == top.locals
            cur == l.current_trend_magic
        IN  /\ AllZero(top.before)
            /\ cur = SelectTrend(l.cci, l.up, l.down, Zero)
            /\ top.out = <<cross(Close(top.input), cur, Zero, Zero),
                           crossover(Low(top.input), cur, Zero, Zero),
                           crossunder(High(top.input), cur, Zero, Zero)>>

\* a first bar after construction that returned a true signal
C18_Witness ==
    /\ top.op = "next"
    /\ top.after.op = "new"
    /\ \E i \in 1..3 : top.out[i]

\* a first bar after a reset that returned a true signal
C18_SignalAfterReset ==
    /\ top.op = "next"
    /\ top.after.op = "reset"
    /\ \E i \in 1..3 : top.out[i]

----------------------------------------------------------------------------
(* Further claims about VolumeWeightedAveragePrice                         *)

\* C12: every consume of a bar with volume >= 0, in every reachable state, also
\* a zero-volume bar while cumulative_volume is 0, returns a real number equal
\* to cumulative_total / cumulative_volume.
C12_ConsumeIsTotal ==
    (vw # <<>> /\ vop.op = "next") =>
        /\ IsNum(vop.out)
        /\ vop.out = FDiv(vw[1].cumulative_total, vw[1].cumulative_volume)

\* every bar of a history has typical price P and positive volume
SinglePrice(h, P) ==
    /\ h # <<>>
    /\ AllPositiveVolume(h)
    /\ \A i \in 1..Len(h) : h[i].tp = P

C19_CumulativeVolume ==
    [][/\ vw' # <<>> =>
            /\ FGe(vw'[1].cumulative_volume, Zero)
            /\ vw'[1].cumulative_volume = SumVolume(fed')
       /\ vop'.op = "next" => FGe(vw'[1].cumulative_volume, vw[1].cumulative_volume)
       /\ (vw # <<>> /\ vw' # <<>> /\ FGt(vw[1].cumulative_volume, Zero)
              /\ vw'[1].cumulative_volume = Zero) => vop'.op = "reset"]_vars

\* a second consume that added a positive volume to a positive one
C19_Witness ==
    /\ vw # <<>>
    /\ vop.op = "next"
    /\ Len(fed) = 2
    /\ FGt(fed[2].volume, Zero)
    /\ FGt(vw[1].cumulative_volume, fed[2].volume)

====
